---- MODULE Spec2Model ----
(***************************************************************************)
(* makemigration: the command that compares the schema stored for the last *)
(* executed migration with the schema of the model definitions, and writes *)
(* a migration (up and down commands) plus a state record.                 *)
(*                                                                         *)
(* bin/makemigration.js is modelled statement by statement.  The library   *)
(* it calls (lib/migrate: reverseModels, parseDifference, sortActions,     *)
(* getMigration, pruneOldMigFiles, writeMigration) is modelled from the    *)
(* design document: sections 3, 4.1, 4.2, 4.3 and 6.                       *)
(***************************************************************************)
EXTENDS Bags, FiniteSets, Integers, Sequences, TLC

(***************************************************************************)
(* Data model (design document, section 3)                                 *)
(***************************************************************************)

\* Table names, and the order in which a snapshot's tables are enumerated.
TableOrder == <<"Users", "Posts">>
TableNames == {TableOrder[i] : i \in 1..Len(TableOrder)}

\* Column names, in enumeration order, and the column definitions.
ColumnOrder == <<"title">>
ColumnNames == {ColumnOrder[i] : i \in 1..Len(ColumnOrder)}
ColumnDefs ==
  {[type |-> "STRING", length |-> "255"], [type |-> "STRING", length |-> "500"]}
NoColumn == [type |-> "", length |-> ""]

\* Index definitions: identity = sorted column list + uniqueness.
IndexOrder == << [fields |-> <<"title">>, unique |-> FALSE] >>
IndexDefs == {IndexOrder[i] : i \in 1..Len(IndexOrder)}
NoIndex == [fields |-> <<>>, unique |-> FALSE]

\* Foreign keys: identity = source column + referenced table.
ForeignKeyOrder ==
  [i \in 1..Len(TableOrder) |-> [column |-> "ownerId", refTable |-> TableOrder[i]]]
ForeignKeyDefs == {ForeignKeyOrder[i] : i \in 1..Len(ForeignKeyOrder)}
NoForeignKey == [column |-> "", refTable |-> ""]

NoColumns == [c \in {} |-> NoColumn]
NoTable == [columns |-> NoColumns, indexes |-> {}, foreignKeys |-> {}]

ColumnMaps == UNION {[D -> ColumnDefs] : D \in SUBSET ColumnNames}

TableDefs ==
  {[columns |-> c, indexes |-> i, foreignKeys |-> f] :
     c \in ColumnMaps, i \in SUBSET IndexDefs, f \in SUBSET ForeignKeyDefs}

\* The empty schema: previousState.tables / currentState.tables as constructed.
EmptyTables == [t \in {} |-> NoTable]

\* Every index is over columns of its table, every foreign key references
\* another table of the same snapshot.
WellFormed(tables) ==
  \A t \in DOMAIN tables :
    /\ \A ix \in tables[t].indexes :
         \A k \in 1..Len(ix.fields) : ix.fields[k] \in DOMAIN tables[t].columns
    /\ \A fk \in tables[t].foreignKeys :
         fk.refTable \in DOMAIN tables /\ fk.refTable # t

Snapshots ==
  {s \in UNION {[P -> TableDefs] : P \in SUBSET TableNames} : WellFormed(s)}

(***************************************************************************)
(* Actions (design document, section 3): a tagged variant, kept as one     *)
(* record shape whose unused payload fields hold the No... values.         *)
(***************************************************************************)
Action(kind, t) ==
  [actionType |-> kind, tableName |-> t, columnName |-> "",
   options |-> NoColumn, previous |-> NoColumn,
   index |-> NoIndex, fk |-> NoForeignKey, attributes |-> NoTable]

RECURSIVE Flatten(_)
Flatten(ss) == IF ss = <<>> THEN <<>> ELSE Head(ss) \o Flatten(Tail(ss))

Reverse(s) == [i \in 1..Len(s) |-> s[Len(s) + 1 - i]]

(***************************************************************************)
(* DiffEngine (design document, section 4.1): migrate.parseDifference      *)
(***************************************************************************)

\* A foreign key of a new table is embedded in its createTable only when the
\* referenced table already exists in the source; otherwise it is deferred to
\* a separate addForeignKey action.
Deferred(source, fk) == fk.refTable \notin DOMAIN source

\* Step 1: a table present in target but absent in source.
CreateActions(source, target, t) ==
  IF t \in DOMAIN target /\ t \notin DOMAIN source
  THEN LET def == target[t]
           embedded == {fk \in def.foreignKeys : ~Deferred(source, fk)}
       IN  << [Action("createTable", t) EXCEPT
                 !.attributes = [def EXCEPT !.foreignKeys = embedded]] >>
           \o Flatten([i \in 1..Len(ForeignKeyOrder) |->
                 IF ForeignKeyOrder[i] \in def.foreignKeys
                    /\ Deferred(source, ForeignKeyOrder[i])
                 THEN << [Action("addForeignKey", t) EXCEPT
                           !.fk = ForeignKeyOrder[i]] >>
                 ELSE <<>>])
  ELSE <<>>

\* Step 2: a table present in source but absent in target.
DropActions(source, target, t) ==
  IF t \in DOMAIN source /\ t \notin DOMAIN target
  THEN << Action("dropTable", t) >>
  ELSE <<>>

\* ColumnActions without the comparison of the two definitions: every column
\* present in both is reported as changed.
ColumnActionsUncompared(old, new, t, c) ==
  IF c \in DOMAIN new.columns /\ c \notin DOMAIN old.columns
  THEN << [Action("addColumn", t) EXCEPT
             !.columnName = c, !.options = new.columns[c]] >>
  ELSE IF c \in DOMAIN old.columns /\ c \notin DOMAIN new.columns
  THEN << [Action("removeColumn", t) EXCEPT
             !.columnName = c, !.previous = old.columns[c]] >>
  ELSE IF c \in DOMAIN old.columns /\ c \in DOMAIN new.columns
  THEN << [Action("changeColumn", t) EXCEPT
             !.columnName = c, !.options = new.columns[c],
             !.previous = old.columns[c]] >>
  ELSE <<>>

\* Step 3, columns of a table present in both.
ColumnActions(old, new, t, c) ==
  IF c \in DOMAIN new.columns /\ c \notin DOMAIN old.columns
  THEN << [Action("addColumn", t) EXCEPT
             !.columnName = c, !.options = new.columns[c]] >>
  ELSE IF c \in DOMAIN old.columns /\ c \notin DOMAIN new.columns
  THEN << [Action("removeColumn", t) EXCEPT
             !.columnName = c, !.previous = old.columns[c]] >>
  ELSE IF c \in DOMAIN old.columns /\ c \in DOMAIN new.columns
          /\ old.columns[c] # new.columns[c]
  THEN << [Action("changeColumn", t) EXCEPT
             !.columnName = c, !.options = new.columns[c],
             !.previous = old.columns[c]] >>
  ELSE <<>>

\* Step 3, indexes of a table present in both, keyed by index identity.
IndexActions(old, new, t, ix) ==
  IF ix \in new.indexes /\ ix \notin old.indexes
  THEN << [Action("addIndex", t) EXCEPT !.index = ix] >>
  ELSE IF ix \in old.indexes /\ ix \notin new.indexes
  THEN << [Action("removeIndex", t) EXCEPT !.index = ix] >>
  ELSE <<>>

\* Step 3, foreign keys of a table present in both, keyed by source column +
\* referenced table.
ForeignKeyActions(old, new, t, fk) ==
  IF fk \in new.foreignKeys /\ fk \notin old.foreignKeys
  THEN << [Action("addForeignKey", t) EXCEPT !.fk = fk] >>
  ELSE IF fk \in old.foreignKeys /\ fk \notin new.foreignKeys
  THEN << [Action("removeForeignKey", t) EXCEPT !.fk = fk] >>
  ELSE <<>>

\* Step 3: a table present in both: columns, indexes and foreign keys are
\* compared independently.
ChangeActions(source, target, t) ==
  IF t \in DOMAIN source /\ t \in DOMAIN target
  THEN Flatten([i \in 1..Len(ColumnOrder) |->
                  ColumnActions(source[t], target[t], t, ColumnOrder[i])])
       \o Flatten([i \in 1..Len(IndexOrder) |->
                  IndexActions(source[t], target[t], t, IndexOrder[i])])
       \o Flatten([i \in 1..Len(ForeignKeyOrder) |->
                  ForeignKeyActions(source[t], target[t], t, ForeignKeyOrder[i])])
  ELSE <<>>

\* diff(source, target): the actions of steps 1, 2 and 3, tables in
\* enumeration order within each step.
parseDifference(source, target) ==
  Flatten([i \in 1..Len(TableOrder) |-> CreateActions(source, target, TableOrder[i])])
  \o Flatten([i \in 1..Len(TableOrder) |-> DropActions(source, target, TableOrder[i])])
  \o Flatten([i \in 1..Len(TableOrder) |-> ChangeActions(source, target, TableOrder[i])])

(***************************************************************************)
(* ActionSorter (design document, section 4.2): migrate.sortActions        *)
(***************************************************************************)

\* Action a depends on action b.
DependsOn(a, b) ==
  \/ /\ a.actionType \in {"addColumn", "addIndex", "addForeignKey",
                          "changeColumn", "removeColumn", "removeIndex"}
     /\ b.actionType = "createTable"
     /\ b.tableName = a.tableName
  \/ /\ a.actionType = "addForeignKey"
     /\ b.actionType = "createTable"
     /\ b.tableName = a.fk.refTable
  \/ /\ a.actionType = "dropTable"
     /\ b.actionType \in {"removeForeignKey", "removeColumn", "removeIndex"}
     /\ \/ b.tableName = a.tableName
        \/ b.actionType = "removeForeignKey" /\ b.fk.refTable = a.tableName

\* The positions whose dependencies have all been emitted.
Ready(actions, emitted) ==
  {i \in (1..Len(actions)) \ emitted :
     \A j \in (1..Len(actions)) \ emitted : j = i \/ ~DependsOn(actions[i], actions[j])}

\* Earliest picking the ready action that appeared latest in the input.
Latest(S) == CHOOSE i \in S : \A j \in S : i >= j

Earliest(S) == CHOOSE i \in S : \A j \in S : i <= j

\* Stable topological sort: among the ready actions, the one that appeared
\* earliest in the input.  The result is the order of positions; when no
\* action is ready (a cycle) the sort fails and the positions left are lost.
RECURSIVE TopologicalOrder(_, _, _)
TopologicalOrder(actions, emitted, out) ==
  IF Ready(actions, emitted) = {}
  THEN out
  ELSE LET i == Earliest(Ready(actions, emitted))
       IN  TopologicalOrder(actions, emitted \cup {i}, Append(out, i))

CyclicDependency(actions) ==
  Len(TopologicalOrder(actions, {}, <<>>)) # Len(actions)

sortActions(actions) ==
  LET order == TopologicalOrder(actions, {}, <<>>)
  IN  [k \in 1..Len(order) |-> actions[order[k]]]

(***************************************************************************)
(* MigrationGenerator (design document, section 4.3): migrate.getMigration *)
(***************************************************************************)

\* One statement template per action kind; the parameters are the action's
\* payload.  changeColumn renders the new definition only; the removals
\* render the name of what they remove.
Statement(a) ==
  [command |-> a.actionType, tableName |-> a.tableName,
   columnName |-> a.columnName, options |-> a.options,
   index |-> a.index, fk |-> a.fk, attributes |-> a.attributes]

LogLine(a) ==
  IF a.actionType \in {"addColumn", "removeColumn", "changeColumn"}
  THEN <<a.actionType, a.columnName, a.tableName>>
  ELSE <<a.actionType, "", a.tableName>>

getMigration(actions) ==
  [commandsUp |-> [i \in 1..Len(actions) |-> Statement(actions[i])],
   consoleOut |-> [i \in 1..Len(actions) |-> LogLine(actions[i])]]

(***************************************************************************)
(* Schema executor (design document, glossary): one statement applied to a *)
(* schema.  A statement whose table (or referenced table) is missing, that *)
(* adds what exists or removes what does not, or that drops a table which  *)
(* a foreign key of another table still references, fails.                 *)
(***************************************************************************)
CanExecute(tables, st) ==
  LET t == st.tableName IN
  CASE st.command = "createTable" ->
         /\ t \notin DOMAIN tables
         /\ \A fk \in st.attributes.foreignKeys : fk.refTable \in DOMAIN tables
    [] st.command = "dropTable" ->
         /\ t \in DOMAIN tables
         /\ \A u \in DOMAIN tables \ {t} :
              \A fk \in tables[u].foreignKeys : fk.refTable # t
    [] st.command = "addColumn" ->
         t \in DOMAIN tables /\ st.columnName \notin DOMAIN tables[t].columns
    [] st.command = "removeColumn" ->
         t \in DOMAIN tables /\ st.columnName \in DOMAIN tables[t].columns
    [] st.command = "changeColumn" ->
         t \in DOMAIN tables /\ st.columnName \in DOMAIN tables[t].columns
    [] st.command = "addIndex" ->
         t \in DOMAIN tables /\ st.index \notin tables[t].indexes
    [] st.command = "removeIndex" ->
         t \in DOMAIN tables /\ st.index \in tables[t].indexes
    [] st.command = "addForeignKey" ->
         /\ t \in DOMAIN tables
         /\ st.fk.refTable \in DOMAIN tables
         /\ st.fk \notin tables[t].foreignKeys
    [] st.command = "removeForeignKey" ->
         t \in DOMAIN tables /\ st.fk \in tables[t].foreignKeys
    [] OTHER -> FALSE

WithColumn(def, c, d) ==
  [def EXCEPT !.columns = [x \in DOMAIN def.columns \cup {c} |->
                             IF x = c THEN d ELSE def.columns[x]]]

WithoutColumn(def, c) ==
  [def EXCEPT !.columns = [x \in DOMAIN def.columns \ {c} |-> def.columns[x]]]

Execute(tables, st) ==
  LET t == st.tableName IN
  CASE st.command = "createTable" ->
         [x \in DOMAIN tables \cup {t} |->
            IF x = t THEN st.attributes ELSE tables[x]]
    [] st.command = "dropTable" ->
         [x \in DOMAIN tables \ {t} |-> tables[x]]
    [] st.command \in {"addColumn", "changeColumn"} ->
         [tables EXCEPT ![t] = WithColumn(@, st.columnName, st.options)]
    [] st.command = "removeColumn" ->
         [tables EXCEPT ![t] = WithoutColumn(@, st.columnName)]
    [] st.command = "addIndex" ->
         [tables EXCEPT ![t].indexes = @ \cup {st.index}]
    [] st.command = "removeIndex" ->
         [tables EXCEPT ![t].indexes = @ \ {st.index}]
    [] st.command = "addForeignKey" ->
         [tables EXCEPT ![t].foreignKeys = @ \cup {st.fk}]
    [] st.command = "removeForeignKey" ->
         [tables EXCEPT ![t].foreignKeys = @ \ {st.fk}]

\* The statements of a script, executed strictly in the given order; the
\* first statement that cannot be executed stops the script.
RECURSIVE ExecuteAll(_, _)
ExecuteAll(db, commands) ==
  IF commands = <<>> \/ ~db.ok
  THEN db
  ELSE IF CanExecute(db.tables, Head(commands))
       THEN ExecuteAll([ok |-> TRUE, tables |-> Execute(db.tables, Head(commands))],
                       Tail(commands))
       ELSE [ok |-> FALSE, tables |-> db.tables]

(***************************************************************************)
(* bin/makemigration.js, lines 127-138: the migration artifact             *)
(*                                                                         *)
(* Lines 131-133 call migrate.sortActions(actions) and                     *)
(* migrate.sortActions(downActions) and do not use what the calls return:  *)
(* the sorter of lib/migrate reorders the array it is given (the spec's    *)
(* lifecycle has the actions "mutated only by ActionSorter", and lists the *)
(* in-place sort as the behaviour of the existing sorter).  The arrays     *)
(* handed to getMigration at lines 135-136 are therefore the sorted ones.  *)
(***************************************************************************)
\* Assemble without line 132: the up actions are generated unsorted.
AssembleUpUnsorted(previousTables, currentTables) ==
  LET actions == parseDifference(previousTables, currentTables)
      downActions == sortActions(parseDifference(currentTables, previousTables))
      migration == getMigration(actions)
      tmp == getMigration(downActions)
  IN  [actions |-> actions,
       downActions |-> downActions,
       commandsUp |-> migration.commandsUp,
       commandsDown |-> tmp.commandsUp,
       consoleOut |-> migration.consoleOut]

\* Assemble without line 133: the down actions are generated unsorted.
AssembleDownUnsorted(previousTables, currentTables) ==
  LET actions == sortActions(parseDifference(previousTables, currentTables))
      downActions == parseDifference(currentTables, previousTables)
      migration == getMigration(actions)
      tmp == getMigration(downActions)
  IN  [actions |-> actions,
       downActions |-> downActions,
       commandsUp |-> migration.commandsUp,
       commandsDown |-> tmp.commandsUp,
       consoleOut |-> migration.consoleOut]

\* Assemble with line 138 taking the down commands from migration, not tmp.
AssembleDownFromUp(previousTables, currentTables) ==
  LET actions == sortActions(parseDifference(previousTables, currentTables))
      downActions == sortActions(parseDifference(currentTables, previousTables))
      migration == getMigration(actions)
  IN  [actions |-> actions,
       downActions |-> downActions,
       commandsUp |-> migration.commandsUp,
       commandsDown |-> migration.commandsUp,
       consoleOut |-> migration.consoleOut]

Assemble(previousTables, currentTables) ==
  LET actions == sortActions(parseDifference(previousTables, currentTables))
      downActions == sortActions(parseDifference(currentTables, previousTables))
      migration == getMigration(actions)
      tmp == getMigration(downActions)
  IN  [actions |-> actions,
       downActions |-> downActions,
       commandsUp |-> migration.commandsUp,
       commandsDown |-> tmp.commandsUp,
       consoleOut |-> migration.consoleOut]

(***************************************************************************)
(* The command's environment and one run of bin/makemigration.js           *)
(***************************************************************************)

\* Runs of the command and ticks of the clock explored.
MaxRuns == 1
MaxTime == 2

\* Line 166: the name of a migration without --name, and the names given with
\* --name; no --name and an empty --name come to the same.
DefaultName == "noname"
NoName == ""
GivenNames == {"addposts"}

VARIABLES
  models,       \* the model definitions found under modelsDir
  metaTable,    \* the table SequelizeMeta exists
  stateTable,   \* the table SequelizeMetaMigrations exists
  meta,         \* rows of SequelizeMeta: names of the executed migrations
  store,        \* rows of SequelizeMetaMigrations: revision, name, state
  files,        \* migration files in migrationsDir: name |-> contents
  now,          \* the clock read by moment()
  runs,         \* runs started so far
  start,        \* files, store and tables as they were when the run started
  pc,           \* the pending promise or handler of the run
  options,      \* commandLineArgs(optionDefinitions)
  lastExecutedMigration,
  revision,
  previousState,
  currentState,
  migration,
  name,
  rows,
  out,          \* lines written to the console
  exitCode,     \* argument of process.exit, -1 while it has not been called
  error,        \* what ended the promise chain, "" while nothing has
  effects,      \* the side effects of the run on files and store, in order
  loaded        \* require(modelsDir) has loaded the model definitions

VARIABLES
  pA, pB,       \* a pair of snapshots
  pStage,
  pInput,       \* the action sequence handed to the sorter
  pSorted,      \* sort(pInput)
  pResorted,    \* sort(sort(pInput))
  pMigration,   \* the artifact assembled for (pA, pB)
  pAfterUp,     \* pA after the up commands
  pAfterDown    \* and after the down commands

runVars ==
  <<models, metaTable, stateTable, meta, store, files, now, runs, start, pc,
    options, lastExecutedMigration, revision, previousState, currentState,
    migration, name, rows, out, exitCode, error, effects, loaded>>

pipeVars ==
  <<pA, pB, pStage, pInput, pSorted, pResorted, pMigration, pAfterUp, pAfterDown>>

vars == <<runVars, pipeVars>>

\* Model definitions a developer may have: the table each model maps to and
\* its definition.
Model(t, def) == [tableName |-> t, definition |-> def]

Titled(len) == [c \in {"title"} |-> [type |-> "STRING", length |-> len]]

OwnedBy(t) == [column |-> "ownerId", refTable |-> t]

ModelChoices ==
  { {},
    {Model("Users", [columns |-> Titled("500"), indexes |-> {}, foreignKeys |-> {}]),
     Model("Posts", [columns |-> NoColumns, indexes |-> {},
                     foreignKeys |-> {OwnedBy("Users")}])},
    {Model("Posts", [columns |-> Titled("255"), indexes |-> IndexDefs,
                     foreignKeys |-> {}])} }

\* migrate.reverseModels: the snapshot of the model definitions, keyed by
\* table name.
reverseModels(ms) ==
  [t \in {m.tableName : m \in ms} |->
     (CHOOSE m \in ms : m.tableName = t).definition]

\* A migration's file name is <revision>-<name>.js; name.split('-')[0].
FileName(rev, title) == <<rev, title>>
SplitFirst(fileName) == fileName[1]

Undefined == <<>>

\* The order of file names as strings: the revision prefixes have the same
\* number of digits, and after them the names compare.
NameOrder == <<"addposts", "noname">>

NameBefore(a, b) ==
  \/ SplitFirst(a) < SplitFirst(b)
  \/ /\ SplitFirst(a) = SplitFirst(b)
     /\ \E i \in 1..Len(NameOrder) : \E j \in 1..Len(NameOrder) :
          i < j /\ NameOrder[i] = a[2] /\ NameOrder[j] = b[2]

\* SELECT name FROM "SequelizeMeta" ORDER BY "name" desc limit 1
LastName(names) ==
  IF names = {} THEN Undefined
  ELSE CHOOSE n \in names : \A m \in names : m = n \/ NameBefore(m, n)

\* JSON.stringify(currentState): the members in order, the tables as the
\* members of an object; and the value the database returns for the column.
JSONStringify(state) ==
  << <<"tables", [i \in 1..Len(TableOrder) |->
                    IF TableOrder[i] \in DOMAIN state.tables
                    THEN <<TableOrder[i], state.tables[TableOrder[i]]>>
                    ELSE <<>>]>>,
     <<"revision", state.revision>> >>

JSONParse(text) ==
  LET members == text[1][2]
      present == {i \in 1..Len(members) : members[i] # <<>>}
  IN  [tables |-> [t \in {members[i][1] : i \in present} |->
                     members[CHOOSE i \in present : members[i][1] = t][2]],
       revision |-> text[2][2]]

\* previousState and currentState as the script constructs them (lines 61-70).
InitialPreviousState == [revision |-> 0, version |-> 1, tables |-> EmptyTables]
InitialCurrentState == [tables |-> EmptyTables]

NoMigration ==
  [actions |-> <<>>, downActions |-> <<>>, commandsUp |-> <<>>,
   commandsDown |-> <<>>, consoleOut |-> <<>>]

\* Lines 13-45: the options that change what a run does to the database, the
\* directory, the console and the exit status.  Of the eleven options four are
\* not state here: comment is text handed to writeMigration (line 167),
\* migrations-path and models-path say where the directories are (lines
\* 56-59), and debug only turns on the logging of SQL and of caught errors
\* (lines 75 and 194-200).
OptionSets ==
  [preview : BOOLEAN, execute : BOOLEAN, resetState : BOOLEAN, keepFiles : BOOLEAN,
   help : BOOLEAN, verbose : BOOLEAN, name : {NoName} \cup GivenNames]

NoOptions ==
  [preview |-> FALSE, execute |-> FALSE, resetState |-> FALSE, keepFiles |-> FALSE,
   help |-> FALSE, verbose |-> FALSE, name |-> NoName]

\* Line 166: (options.name) ? options.name : 'noname'
Title(opts) == IF opts.name # NoName THEN opts.name ELSE DefaultName

\* Lines 13-43 and 47-52: the usage, a heading and one line per option.
OptionNames ==
  <<"preview", "name", "comment", "execute", "migrations-path", "models-path",
    "verbose", "debug", "keep-files", "help", "reset-state">>

Usage ==
  << <<"Sequelize migration creation tool", "Usage:">> >>
    \o [i \in 1..Len(OptionNames) |-> <<"--", OptionNames[i]>>]

\* The run is over: process.exit was called, a rejection ended the chain, or
\* an exception was not caught.
Stopped == {"exited", "caught", "unhandled", "uncaught"}

(***************************************************************************)
(* The developer and the sequelize CLI, between runs                       *)
(***************************************************************************)

\* The developer edits the model definitions.
EditModels ==
  /\ pc = "idle"
  /\ \E ms \in ModelChoices : ms # models /\ models' = ms
  /\ UNCHANGED <<error, effects, loaded>>
  /\ UNCHANGED pipeVars
  /\ UNCHANGED <<metaTable, stateTable, meta, store, files, now, runs, start, pc,
                 options, lastExecutedMigration, revision, previousState,
                 currentState, migration, name, rows, out, exitCode>>

\* sequelize db:migrate executes the first migration file, in the order of
\* the names, that comes after every executed one, and records its name in
\* SequelizeMeta.
ExecuteMigration ==
  /\ pc = "idle"
  /\ metaTable
  /\ \E f \in files :
       /\ \A n \in meta : NameBefore(n, f.name)
       /\ \A g \in files :
            (\A n \in meta : NameBefore(n, g.name))
              => (g.name = f.name \/ NameBefore(f.name, g.name))
       /\ meta' = meta \cup {f.name}
  /\ UNCHANGED <<error, effects, loaded>>
  /\ UNCHANGED pipeVars
  /\ UNCHANGED <<models, metaTable, stateTable, store, files, now, runs, start, pc,
                 options, lastExecutedMigration, revision, previousState,
                 currentState, migration, name, rows, out, exitCode>>

\* Time passes.
Tick ==
  /\ pc = "idle"
  /\ now < MaxTime
  /\ now' = now + 1
  /\ UNCHANGED <<error, effects, loaded>>
  /\ UNCHANGED pipeVars
  /\ UNCHANGED <<models, metaTable, stateTable, meta, store, files, runs, start, pc,
                 options, lastExecutedMigration, revision, previousState,
                 currentState, migration, name, rows, out, exitCode>>

(***************************************************************************)
(* bin/makemigration.js                                                    *)
(***************************************************************************)

\* Lines 45-81: the options are parsed; with --help the usage is printed and
\* the process exits; otherwise the state is constructed, the models are
\* loaded with require(modelsDir) and createTable('SequelizeMeta') is issued.
StartRun ==
  /\ pc = "idle"
  /\ runs < MaxRuns
  /\ runs' = runs + 1
  /\ \E o \in OptionSets : options' = o
  /\ start' = [files |-> files, store |-> store,
               metaTable |-> metaTable, stateTable |-> stateTable]
  /\ pc' = IF options'.help THEN "exited" ELSE "createMeta"
  /\ out' = IF options'.help THEN Usage ELSE <<>>
  /\ exitCode' = IF options'.help THEN 0 ELSE -1
  /\ loaded' = ~options'.help
  /\ lastExecutedMigration' = Undefined
  /\ revision' = -1
  /\ previousState' = InitialPreviousState
  /\ currentState' = InitialCurrentState
  /\ migration' = NoMigration
  /\ name' = <<>>
  /\ rows' = <<>>
  /\ error' = ""
  /\ effects' = <<>>
  /\ UNCHANGED pipeVars
  /\ UNCHANGED <<models, metaTable, stateTable, meta, store, files, now>>

\* Line 73: require(modelsDir) throws (there are no models to load); the
\* exception is not caught and the process ends with status 1.
RequireFails ==
  /\ pc = "idle"
  /\ runs < MaxRuns
  /\ runs' = runs + 1
  /\ \E o \in OptionSets : ~o.help /\ options' = o
  /\ start' = [files |-> files, store |-> store,
               metaTable |-> metaTable, stateTable |-> stateTable]
  /\ pc' = "uncaught"
  /\ exitCode' = 1
  /\ error' = "thrown"
  /\ UNCHANGED pipeVars
  /\ UNCHANGED <<models, metaTable, stateTable, meta, store, files, now,
                 lastExecutedMigration, revision, previousState, currentState,
                 migration, name, rows, out, effects, loaded>>

\* Lines 81-89: SequelizeMeta is created if it does not exist, then
\* createTable('SequelizeMetaMigrations') is issued.
CreateMetaTable ==
  /\ pc = "createMeta"
  /\ metaTable' = TRUE
  /\ pc' = "createState"
  /\ UNCHANGED <<error, effects, loaded>>
  /\ UNCHANGED pipeVars
  /\ UNCHANGED <<models, stateTable, meta, store, files, now, runs, start,
                 options, lastExecutedMigration, revision, previousState,
                 currentState, migration, name, rows, out, exitCode>>

\* Lines 89-106: SequelizeMetaMigrations is created if it does not exist, then
\* the last executed migration is queried.
CreateStateTable ==
  /\ pc = "createState"
  /\ stateTable' = TRUE
  /\ pc' = "queryLast"
  /\ UNCHANGED <<error, effects, loaded>>
  /\ UNCHANGED pipeVars
  /\ UNCHANGED <<models, metaTable, meta, store, files, now, runs, start,
                 options, lastExecutedMigration, revision, previousState,
                 currentState, migration, name, rows, out, exitCode>>

\* ExitOnReset without the test of the last executed migration.
ExitOnResetNever(last, resetState) == FALSE

\* Lines 109-112.
ExitOnReset(last, resetState) == last = Undefined /\ resetState

\* Lines 107-113: the handler of the first query.
QueryLastExecuted ==
  /\ pc = "queryLast"
  /\ lastExecutedMigration' = LastName(meta)
  /\ revision' = IF LastName(meta) = Undefined THEN -1
                 ELSE SplitFirst(LastName(meta))
  /\ IF ExitOnReset(LastName(meta), options.resetState)
     THEN pc' = "exited" /\ exitCode' = 0
     ELSE pc' = "queryState" /\ exitCode' = exitCode
  /\ UNCHANGED <<error, effects, loaded>>
  /\ UNCHANGED pipeVars
  /\ UNCHANGED <<models, metaTable, stateTable, meta, store, files, now, runs,
                 start, options, previousState, currentState, migration, name,
                 rows, out>>

\* LastMigration selecting the newest record, whatever its revision.
LastMigrationNewest(records, rev) ==
  {r \in records : \A q \in records : q.revision <= r.revision}

\* SELECT state FROM "SequelizeMetaMigrations" where "revision" = revision
LastMigration(records, rev) == {r \in records : r.revision = rev}

\* LoadPrevious with the test of resetState not negated.
LoadPreviousUnnegated(resetState, found, initial) ==
  IF resetState /\ found # {}
  THEN JSONParse((CHOOSE r \in found : TRUE).state)
  ELSE initial

\* Lines 115-117.
LoadPrevious(resetState, found, initial) ==
  IF ~resetState /\ found # {}
  THEN JSONParse((CHOOSE r \in found : TRUE).state)
  ELSE initial

\* Lines 119-125.
Current(resetState, ms, rev, time) ==
  [tables |-> reverseModels(ms),
   revision |-> IF resetState THEN rev ELSE time]

\* NoChanges with the test of resetState not negated.
NoChangesUnnegated(resetState, commandsUp) == resetState /\ Len(commandsUp) = 0

\* Line 140.
NoChanges(resetState, commandsUp) == ~resetState /\ Len(commandsUp) = 0

\* Preview reading an option that is never set.
PreviewIgnored(opts) == FALSE

\* Line 146: one line of the console per entry of the change log.
ActionLines(consoleOut) ==
  [i \in 1..Len(consoleOut) |-> <<"[Actions]", consoleOut[i]>>]

\* Lines 148-154.
Preview(opts) == opts.preview

\* Lines 114-156: the handler of the second query.
QueryState ==
  /\ pc = "queryState"
  /\ previousState' = LoadPrevious(options.resetState,
                                   LastMigration(store, revision), previousState)
  /\ currentState' = Current(options.resetState, models, revision, now)
  /\ migration' = Assemble(previousState'.tables, currentState'.tables)
  /\ IF NoChanges(options.resetState, migration'.commandsUp)
     THEN /\ out' = Append(out, <<"No changes found">>)
          /\ pc' = "exited"
          /\ exitCode' = 0
     ELSE IF Preview(options)
     THEN /\ out' = out \o ActionLines(migration'.consoleOut)
                     \o << <<"Migration result:", migration'.commandsUp>>,
                           <<"Undo commands:", migration'.commandsDown>> >>
          /\ pc' = "exited"
          /\ exitCode' = 0
     ELSE /\ out' = out \o ActionLines(migration'.consoleOut)
          /\ pc' = "prune"
          /\ exitCode' = exitCode
  /\ UNCHANGED <<error, effects, loaded>>
  /\ UNCHANGED pipeVars
  /\ UNCHANGED <<models, metaTable, stateTable, meta, store, files, now, runs,
                 start, options, lastExecutedMigration, revision, name, rows>>

\* migrate.pruneOldMigFiles: the files of revisions after the given one are
\* removed, unless --keep-files.
pruneOldMigFiles(rev, dir, opts) ==
  IF opts.keepFiles THEN dir ELSE {f \in dir : ~(SplitFirst(f.name) > rev)}

PruneOldMigFiles ==
  /\ pc = "prune"
  /\ files' = pruneOldMigFiles(revision, files, options)
  /\ pc' = "pruned"
  /\ effects' = Append(effects, "prune")
  /\ error' = error
  /\ loaded' = loaded
  /\ UNCHANGED pipeVars
  /\ UNCHANGED <<models, metaTable, stateTable, meta, store, now, runs, start,
                 options, lastExecutedMigration, revision, previousState,
                 currentState, migration, name, rows, out, exitCode>>

\* migrate.writeMigration: the file <revision>-<name>.js holding the commands,
\* and its info.
writeMigration(rev, mig, dir, title) ==
  LET fileName == FileName(rev, title)
  IN  [dir |-> {f \in dir : f.name # fileName}
                 \cup {[name |-> fileName, commandsUp |-> mig.commandsUp,
                        commandsDown |-> mig.commandsDown]},
       filename |-> fileName,
       info |-> [revision |-> rev, name |-> <<title>>]]

\* Rows serialising the state as it was constructed, before the tables of the
\* models were assigned to it.
RowsWithoutTables(state, migrationName) ==
  << [revision |-> state.revision,
      name |-> migrationName,
      state |-> JSONStringify([state EXCEPT !.tables = EmptyTables])] >>

\* Lines 175-179.
Rows(state, migrationName) ==
  << [revision |-> state.revision,
      name |-> migrationName,
      state |-> JSONStringify(state)] >>

\* AfterPrune writing the migration file whatever resetState is.
AfterPruneAlwaysWrites ==
  /\ pc = "pruned"
  /\ LET info == writeMigration(currentState.revision, migration, files,
                                Title(options))
     IN  /\ name' = IF options.resetState THEN lastExecutedMigration
                    ELSE info.info.name
         /\ files' = info.dir
         /\ out' = Append(out, <<"New migration to revision",
                                 currentState.revision, info.filename>>)
  /\ rows' = Rows(currentState, name')
  /\ pc' = "delete"
  /\ effects' = Append(effects, "write")
  /\ error' = error
  /\ loaded' = loaded
  /\ UNCHANGED pipeVars
  /\ UNCHANGED <<models, metaTable, stateTable, meta, store, now, runs, start,
                 options, lastExecutedMigration, revision, previousState,
                 currentState, migration, exitCode>>

\* AfterPrune issuing the bulkInsert together with the DELETE instead of in the
\* handler of the DELETE: the insert is done before the DELETE.
AfterPruneUnchained ==
  /\ pc = "pruned"
  /\ IF options.resetState
     THEN /\ name' = lastExecutedMigration
          /\ files' = files
          /\ out' = out
     ELSE LET info == writeMigration(currentState.revision, migration, files,
                                     Title(options))
          IN  /\ name' = info.info.name
              /\ files' = info.dir
              /\ out' = Append(out, <<"New migration to revision",
                                      currentState.revision, info.filename>>)
  /\ rows' = Rows(currentState, name')
  /\ store' = store \cup {rows'[i] : i \in 1..Len(rows')}
  /\ pc' = "delete"
  /\ effects' = IF options.resetState THEN Append(effects, "insert")
                ELSE effects \o <<"write", "insert">>
  /\ error' = error
  /\ loaded' = loaded
  /\ UNCHANGED pipeVars
  /\ UNCHANGED <<models, metaTable, stateTable, meta, now, runs, start,
                 options, lastExecutedMigration, revision, previousState,
                 currentState, migration, exitCode>>

\* Lines 156-181: the handler of the prune: the migration is written, the row
\* is built and the DELETE is issued.
AfterPrune ==
  /\ pc = "pruned"
  /\ IF options.resetState
     THEN /\ name' = lastExecutedMigration
          /\ files' = files
          /\ out' = out
     ELSE LET info == writeMigration(currentState.revision, migration, files,
                                     Title(options))
          IN  /\ name' = info.info.name
              /\ files' = info.dir
              /\ out' = Append(out, <<"New migration to revision",
                                      currentState.revision, info.filename>>)
  /\ rows' = Rows(currentState, name')
  /\ pc' = "delete"
  /\ effects' = IF options.resetState THEN effects ELSE Append(effects, "write")
  /\ error' = error
  /\ loaded' = loaded
  /\ UNCHANGED pipeVars
  /\ UNCHANGED <<models, metaTable, stateTable, meta, store, now, runs, start,
                 options, lastExecutedMigration, revision, previousState,
                 currentState, migration, exitCode>>

\* Delete with the sign = when resetState.
DeleteEqual(records, resetState, rev) ==
  IF resetState
  THEN {r \in records : ~(r.revision = rev)}
  ELSE {r \in records : ~(r.revision > rev)}

\* Lines 180-181: DELETE FROM "SequelizeMetaMigrations" where "revision" sign revision
Delete(records, resetState, rev) ==
  IF resetState
  THEN {r \in records : ~(r.revision >= rev)}
  ELSE {r \in records : ~(r.revision > rev)}

\* Lines 181-183: the DELETE is done, and its handler issues the bulkInsert.
DeleteDone ==
  /\ pc = "delete"
  /\ store' = Delete(store, options.resetState, revision)
  /\ pc' = "insert"
  /\ effects' = Append(effects, "delete")
  /\ error' = error
  /\ loaded' = loaded
  /\ UNCHANGED pipeVars
  /\ UNCHANGED <<models, metaTable, stateTable, meta, files, now, runs, start,
                 options, lastExecutedMigration, revision, previousState,
                 currentState, migration, name, rows, out, exitCode>>

\* revision is the primary key of SequelizeMetaMigrations.
CanInsert(records, new) ==
  \A i \in 1..Len(new) : \A r \in records : r.revision # new[i].revision

\* Line 183: the bulkInsert is done.
InsertDone ==
  /\ pc = "insert"
  /\ CanInsert(store, rows)
  /\ store' = store \cup {rows[i] : i \in 1..Len(rows)}
  /\ pc' = "inserted"
  /\ effects' = Append(effects, "insert")
  /\ error' = error
  /\ loaded' = loaded
  /\ UNCHANGED pipeVars
  /\ UNCHANGED <<models, metaTable, stateTable, meta, files, now, runs, start,
                 options, lastExecutedMigration, revision, previousState,
                 currentState, migration, name, rows, out, exitCode>>

\* Lines 189-193.  With --execute the handler reads info, which is declared in
\* the block of lines 161-171 and is not in scope here: evaluating the message
\* throws a ReferenceError, which line 194 catches.
AfterInsertStep(execute) == IF execute THEN "caught" ELSE "exited"

\* Lines 184-194: the handler of the bulkInsert.
AfterInsert ==
  /\ pc = "inserted"
  /\ out' = (IF options.resetState
             THEN Append(out, <<"Reset state to latest migration", name>>)
             ELSE out)
            \o (IF options.verbose THEN << <<"Updated state on DB.">> >> ELSE <<>>)
  /\ pc' = AfterInsertStep(options.execute)
  /\ exitCode' = IF pc' = "exited" THEN 0 ELSE exitCode
  /\ error' = IF options.execute THEN "ReferenceError" ELSE error
  /\ effects' = effects
  /\ loaded' = loaded
  /\ UNCHANGED pipeVars
  /\ UNCHANGED <<models, metaTable, stateTable, meta, store, files, now, runs,
                 start, options, lastExecutedMigration, revision, previousState,
                 currentState, migration, name, rows>>

\* StepFails with the catch of the DELETE ahead of its handler: the rejection is
\* swallowed and the bulkInsert is issued all the same.
StepFailsSwallowed ==
  /\ pc \in {"createMeta", "createState", "queryLast", "queryState", "prune",
             "delete", "insert"}
  /\ pc' = IF pc = "delete" THEN "insert" ELSE "caught"
  /\ error' = "rejected"
  /\ effects' = effects
  /\ loaded' = loaded
  /\ UNCHANGED pipeVars
  /\ UNCHANGED <<models, metaTable, stateTable, meta, store, files, now, runs,
                 start, options, lastExecutedMigration, revision, previousState,
                 currentState, migration, name, rows, out, exitCode>>

\* Lines 194-200: a rejected promise of the chain is caught and the run goes
\* no further; a bulkInsert of an existing revision is rejected.  So is a
\* handler that throws: pruneOldMigFiles throwing when it is called at line
\* 156 rejects the promise of the handler of the second query.
StepFails ==
  /\ pc \in {"createMeta", "createState", "queryLast", "queryState", "prune",
             "delete", "insert"}
  /\ pc' = "caught"
  /\ error' = "rejected"
  /\ effects' = effects
  /\ loaded' = loaded
  /\ UNCHANGED pipeVars
  /\ UNCHANGED <<models, metaTable, stateTable, meta, store, files, now, runs,
                 start, options, lastExecutedMigration, revision, previousState,
                 currentState, migration, name, rows, out, exitCode>>

\* Line 196: the promise pruneOldMigFiles returns is rejected, and has no
\* catch.
PruneFails ==
  /\ pc = "prune"
  /\ pc' = "unhandled"
  /\ error' = "rejected"
  /\ effects' = effects
  /\ loaded' = loaded
  /\ UNCHANGED pipeVars
  /\ UNCHANGED <<models, metaTable, stateTable, meta, store, files, now, runs,
                 start, options, lastExecutedMigration, revision, previousState,
                 currentState, migration, name, rows, out, exitCode>>

\* Lines 162-168: writeMigration throws (the file cannot be written) inside
\* the handler of the prune, whose promise has no catch.
WriteFails ==
  /\ pc = "pruned"
  /\ ~options.resetState
  /\ pc' = "unhandled"
  /\ error' = "rejected"
  /\ effects' = effects
  /\ loaded' = loaded
  /\ UNCHANGED pipeVars
  /\ UNCHANGED <<models, metaTable, stateTable, meta, store, files, now, runs,
                 start, options, lastExecutedMigration, revision, previousState,
                 currentState, migration, name, rows, out, exitCode>>

\* The process of a run that is over is gone, and its memory with it.
ProcessGone ==
  /\ pc \in Stopped
  /\ pc' = "idle"
  /\ start' = [files |-> files, store |-> store,
               metaTable |-> metaTable, stateTable |-> stateTable]
  /\ options' = NoOptions
  /\ lastExecutedMigration' = Undefined
  /\ revision' = -1
  /\ previousState' = InitialPreviousState
  /\ currentState' = InitialCurrentState
  /\ migration' = NoMigration
  /\ name' = <<>>
  /\ rows' = <<>>
  /\ out' = <<>>
  /\ exitCode' = -1
  /\ error' = ""
  /\ effects' = <<>>
  /\ loaded' = FALSE
  /\ UNCHANGED pipeVars
  /\ UNCHANGED <<models, metaTable, stateTable, meta, store, files, now, runs>>

\* The database and the migrations directory a run may find:
\*   Fresh        nothing yet;
\*   Pending      a first run at time 1 generated a migration, not applied yet;
\*   Interrupted  the DELETE of that first run was rejected, so that its file
\*                has no record, and sequelize db:migrate applied the file;
\*   History      the migration of the first run was applied, and a second run
\*                at time 2 generated a migration that is not applied yet.
FirstModels ==
  {Model("Users", [columns |-> Titled("500"), indexes |-> {}, foreignKeys |-> {}]),
   Model("Posts", [columns |-> NoColumns, indexes |-> {},
                   foreignKeys |-> {OwnedBy("Users")}])}

SecondModels ==
  {Model("Posts", [columns |-> Titled("255"), indexes |-> IndexDefs,
                   foreignKeys |-> {}])}

FirstState == Current(FALSE, FirstModels, -1, 1)

FirstFile ==
  writeMigration(1, Assemble(EmptyTables, FirstState.tables), {}, DefaultName)

Fresh ==
  [models |-> {}, tablesExist |-> FALSE, meta |-> {}, store |-> {},
   files |-> {}, now |-> 1]

Pending ==
  [models |-> FirstModels, tablesExist |-> TRUE, meta |-> {},
   store |-> {Rows(FirstState, FirstFile.info.name)[1]},
   files |-> FirstFile.dir, now |-> 1]

Interrupted ==
  [models |-> FirstModels, tablesExist |-> TRUE, meta |-> {FirstFile.filename},
   store |-> {}, files |-> FirstFile.dir, now |-> 1]

History ==
  LET state2 == Current(FALSE, SecondModels, 1, 2)
      file2  == writeMigration(2, Assemble(FirstState.tables, state2.tables),
                               FirstFile.dir, DefaultName)
  IN  [models |-> SecondModels, tablesExist |-> TRUE,
       meta |-> {FirstFile.filename},
       store |-> {Rows(FirstState, FirstFile.info.name)[1],
                  Rows(state2, file2.info.name)[1]},
       files |-> file2.dir, now |-> 2]

Environments == {Fresh, Pending, Interrupted, History}

RunInit(e) ==
  /\ models = e.models
  /\ metaTable = e.tablesExist
  /\ stateTable = e.tablesExist
  /\ meta = e.meta
  /\ store = e.store
  /\ files = e.files
  /\ now = e.now
  /\ start = [files |-> e.files, store |-> e.store,
              metaTable |-> e.tablesExist, stateTable |-> e.tablesExist]
  /\ runs = 0
  /\ pc = "idle"
  /\ options = NoOptions
  /\ lastExecutedMigration = Undefined
  /\ revision = -1
  /\ previousState = InitialPreviousState
  /\ currentState = InitialCurrentState
  /\ migration = NoMigration
  /\ name = <<>>
  /\ rows = <<>>
  /\ out = <<>>
  /\ exitCode = -1
  /\ error = ""
  /\ effects = <<>>
  /\ loaded = FALSE

PipeOff ==
  /\ pA = EmptyTables
  /\ pB = EmptyTables
  /\ pStage = "off"
  /\ pInput = <<>>
  /\ pSorted = <<>>
  /\ pResorted = <<>>
  /\ pMigration = NoMigration
  /\ pAfterUp = [ok |-> TRUE, tables |-> EmptyTables]
  /\ pAfterDown = [ok |-> TRUE, tables |-> EmptyTables]

Init == \E e \in Environments : RunInit(e) /\ PipeOff

Next ==
  \/ EditModels
  \/ ExecuteMigration
  \/ Tick
  \/ StartRun
  \/ RequireFails
  \/ CreateMetaTable
  \/ CreateStateTable
  \/ QueryLastExecuted
  \/ QueryState
  \/ PruneOldMigFiles
  \/ AfterPrune
  \/ DeleteDone
  \/ InsertDone
  \/ AfterInsert
  \/ StepFails
  \/ PruneFails
  \/ WriteFails
  \/ ProcessGone

Spec == Init /\ [][Next]_vars

(***************************************************************************)
(* The pipeline diff -> sort -> generate on every pair of snapshots, and   *)
(* the generated scripts executed against the first of the pair            *)
(***************************************************************************)
PipeInit ==
  /\ RunInit(Fresh)
  /\ pA \in Snapshots
  /\ pB \in Snapshots
  /\ pStage = "start"
  /\ pInput = <<>>
  /\ pSorted = <<>>
  /\ pResorted = <<>>
  /\ pMigration = NoMigration
  /\ pAfterUp = [ok |-> TRUE, tables |-> EmptyTables]
  /\ pAfterDown = [ok |-> TRUE, tables |-> EmptyTables]

\* diff(pA, pB); the diff is an unordered set of actions to the sorter, which
\* is handed it in the order of enumeration or in the opposite order.
PDiff ==
  /\ pStage = "start"
  /\ \E opposite \in BOOLEAN :
       pInput' = IF opposite THEN Reverse(parseDifference(pA, pB))
                 ELSE parseDifference(pA, pB)
  /\ pStage' = "diffed"
  /\ UNCHANGED runVars
  /\ UNCHANGED <<pA, pB, pSorted, pResorted, pMigration, pAfterUp, pAfterDown>>

\* sort, and sort again.
PSort ==
  /\ pStage = "diffed"
  /\ pSorted' = sortActions(pInput)
  /\ pResorted' = sortActions(pSorted')
  /\ pStage' = "sorted"
  /\ UNCHANGED runVars
  /\ UNCHANGED <<pA, pB, pInput, pMigration, pAfterUp, pAfterDown>>

\* The artifact the command assembles for previous = pA and current = pB.
PAssemble ==
  /\ pStage = "sorted"
  /\ pMigration' = Assemble(pA, pB)
  /\ pStage' = "assembled"
  /\ UNCHANGED runVars
  /\ UNCHANGED <<pA, pB, pInput, pSorted, pResorted, pAfterUp, pAfterDown>>

\* The up commands, executed in order against a schema equal to pA.
PUp ==
  /\ pStage = "assembled"
  /\ pAfterUp' = ExecuteAll([ok |-> TRUE, tables |-> pA], pMigration.commandsUp)
  /\ pStage' = "up"
  /\ UNCHANGED runVars
  /\ UNCHANGED <<pA, pB, pInput, pSorted, pResorted, pMigration, pAfterDown>>

\* The down commands, executed in order afterwards.
PDown ==
  /\ pStage = "up"
  /\ pAfterDown' = ExecuteAll(pAfterUp, pMigration.commandsDown)
  /\ pStage' = "down"
  /\ UNCHANGED runVars
  /\ UNCHANGED <<pA, pB, pInput, pSorted, pResorted, pMigration, pAfterUp>>

PipeNext ==
  \/ PDiff
  \/ PSort
  \/ PAssemble
  \/ PUp
  \/ PDown

PipeSpec == PipeInit /\ [][PipeNext]_vars

(***************************************************************************)
(* Properties of the pipeline (checked under PipeSpec)                     *)
(***************************************************************************)

\* The multiset of the elements of a sequence.
BagOfSeq(q) ==
  [x \in {q[i] : i \in 1..Len(q)} |-> Cardinality({i \in 1..Len(q) : q[i] = x})]

\* Action a targets table t, or references it as a foreign-key target.
Touches(a, t) ==
  \/ a.tableName = t
  \/ a.fk.refTable = t
  \/ \E fk \in a.attributes.foreignKeys : fk.refTable = t

\* createTable(T) precedes every other action that targets or references T.
CreateFirst(q) ==
  \A i \in 1..Len(q) : \A j \in 1..Len(q) :
    (q[i].actionType = "createTable" /\ j # i /\ Touches(q[j], q[i].tableName))
      => i < j

\* Every removeForeignKey, removeColumn and removeIndex that targets T or
\* references T as a foreign-key target precedes dropTable(T).
DropLast(q) ==
  \A i \in 1..Len(q) : \A j \in 1..Len(q) :
    (/\ q[i].actionType = "dropTable"
     /\ q[j].actionType \in {"removeForeignKey", "removeColumn", "removeIndex"}
     /\ (q[j].tableName = q[i].tableName \/ q[j].fk.refTable = q[i].tableName))
      => j < i

\* No action of the sequence comes before an action it depends on.
InDependencyOrder(q) ==
  \A i \in 1..Len(q) : \A j \in 1..Len(q) : DependsOn(q[i], q[j]) => j < i

\* C2 as stated: the up script executed in order against a schema equal to
\* previous yields a schema equal to current, and the down script executed
\* afterwards yields a schema equal to previous again.
C2_RoundTrip ==
  /\ pStage \in {"up", "down"} => pAfterUp.ok /\ pAfterUp.tables = pB
  /\ pStage = "down" => pAfterDown.ok /\ pAfterDown.tables = pA

\* C7: in a sorted action sequence, createTable(T) precedes every other
\* action that targets T or references T.
C7_CreateTableFirst ==
  /\ pStage \notin {"start", "diffed"} => CreateFirst(pSorted)
  /\ pStage \in {"assembled", "up", "down"} =>
       CreateFirst(pMigration.actions) /\ CreateFirst(pMigration.downActions)

\* The sorter was handed addForeignKey(Posts -> Users) before
\* createTable(Users), and moved it.
C7_Witness ==
  /\ pStage = "sorted"
  /\ \E i \in 1..Len(pInput) : \E j \in 1..Len(pInput) :
       /\ i < j
       /\ pInput[i].actionType = "addForeignKey"
       /\ pInput[j].actionType = "createTable"
       /\ pInput[i].fk.refTable = pInput[j].tableName
       /\ pInput[i].tableName # pInput[j].tableName
  /\ CreateFirst(pSorted)

\* C8: in a sorted action sequence, every removeForeignKey, removeColumn and
\* removeIndex that targets T or references T as a foreign-key target
\* precedes dropTable(T).
C8_DropTableLast ==
  /\ pStage \notin {"start", "diffed"} => DropLast(pSorted)
  /\ pStage \in {"assembled", "up", "down"} =>
       DropLast(pMigration.actions) /\ DropLast(pMigration.downActions)

\* The sorter was handed dropTable(T) before a removeForeignKey that
\* references T, and moved it.
C8_Witness ==
  /\ pStage = "sorted"
  /\ \E i \in 1..Len(pInput) : \E j \in 1..Len(pInput) :
       /\ i < j
       /\ pInput[i].actionType = "dropTable"
       /\ pInput[j].actionType = "removeForeignKey"
       /\ pInput[j].fk.refTable = pInput[i].tableName
  /\ DropLast(pSorted)

\* C9: the sorted sequence is a permutation of the input (same multiset of
\* actions, payloads unchanged); sorting it again changes nothing; and an
\* input that already satisfies dependency order is returned unchanged.
C9_SortPermutationIdempotent ==
  pStage \notin {"start", "diffed"} =>
    /\ Len(pSorted) = Len(pInput)
    /\ BagOfSeq(pSorted) = BagOfSeq(pInput)
    /\ pResorted = pSorted
    /\ InDependencyOrder(pSorted)
    /\ InDependencyOrder(pInput) => pSorted = pInput

\* An input of several actions that is in dependency order although it is not
\* the order of enumeration, and is returned unchanged.
C9_Witness ==
  /\ pStage = "sorted"
  /\ Len(pInput) >= 3
  /\ pInput # parseDifference(pA, pB)
  /\ InDependencyOrder(pInput)
  /\ pSorted = pInput

\* C10: diff(S, S) is the empty action sequence.
C10_DiffIdentity ==
  (pStage # "start" /\ pA = pB) =>
     /\ pInput = <<>>
     /\ pStage \in {"assembled", "up", "down"} =>
          pMigration.actions = <<>> /\ pMigration.downActions = <<>>

\* A snapshot of two tables with columns, an index and a foreign key, diffed
\* with itself.
C10_Witness ==
  /\ pStage = "diffed"
  /\ pA = pB
  /\ DOMAIN pA = TableNames
  /\ \E t \in TableNames :
       pA[t].foreignKeys # {} /\ pA[t].indexes # {} /\ DOMAIN pA[t].columns # {}
  /\ pInput = <<>>

(***************************************************************************)
(* Properties of a run (checked under Spec)                                *)
(***************************************************************************)

\* The run has reached generation: lines 119-138 have been executed.
Generated == "revision" \in DOMAIN currentState

NoChangesReported ==
  pc = "exited" /\ exitCode = 0 /\ out = << <<"No changes found">> >>

FilesAndRecordsUntouched == files = start.files /\ store = start.store

\* C1: the up commands are generate(sort(diff(previous, current))) and the
\* down commands are generate(sort(diff(current, previous))): the sequence
\* handed to the generator in each direction is the sorted diff of that
\* direction, and the down script is the forward rendering of the reverse diff.
C1_Artifact ==
  Generated =>
    /\ migration.actions =
         sortActions(parseDifference(previousState.tables, currentState.tables))
    /\ migration.downActions =
         sortActions(parseDifference(currentState.tables, previousState.tables))
    /\ migration.commandsUp = getMigration(migration.actions).commandsUp
    /\ migration.consoleOut = getMigration(migration.actions).consoleOut
    /\ migration.commandsDown = getMigration(migration.downActions).commandsUp

\* A run whose previous state was loaded from the store, and whose reverse
\* diff had to be reordered by the sort.
C1_Witness ==
  /\ Generated
  /\ previousState.tables # EmptyTables
  /\ migration.commandsUp # <<>>
  /\ migration.downActions #
       parseDifference(currentState.tables, previousState.tables)

\* C3 as stated: whenever the forward diff is empty, for every combination of
\* options (--reset-state included), the run reports no changes and prunes,
\* writes, deletes and inserts nothing.
C3_AsStated ==
  (Generated /\ migration.actions = <<>>) =>
     NoChangesReported /\ FilesAndRecordsUntouched

\* C3, amended: without --reset-state, whenever the forward diff is empty the
\* run reports no changes and prunes, writes, deletes and inserts nothing.
C3_NoChanges ==
  (Generated /\ ~options.resetState /\ migration.actions = <<>>) =>
     NoChangesReported /\ FilesAndRecordsUntouched

\* A run with --preview and --execute over models that have not changed since
\* the last executed migration.
C3_Witness ==
  /\ Generated
  /\ ~options.resetState
  /\ options.preview
  /\ options.execute
  /\ migration.actions = <<>>
  /\ currentState.tables # EmptyTables
  /\ start.store # {}
  /\ pc = "exited"

\* C4 as stated: with --preview a run writes or prunes no migration file and
\* creates, deletes or inserts nothing in the database, no table included.
C4_AsStated ==
  options.preview =>
    /\ FilesAndRecordsUntouched
    /\ metaTable = start.metaTable
    /\ stateTable = start.stateTable

\* C4, amended: with --preview a run writes or prunes no migration file and
\* deletes or inserts no state record; when it finds changes it only renders
\* the change log, the up statements and the down statements.  Unless --help
\* is given as well, it does create the tables SequelizeMeta and
\* SequelizeMetaMigrations: both exist once the two createTable calls are done.
C4_Preview ==
  options.preview =>
    /\ FilesAndRecordsUntouched
    /\ pc \notin {"prune", "pruned", "delete", "insert", "inserted"}
    /\ (~options.help /\ pc \in {"queryLast", "queryState", "exited"}) =>
         metaTable /\ stateTable
    /\ (options.help /\ pc = "exited") =>
         metaTable = start.metaTable /\ stateTable = start.stateTable
    /\ (Generated /\ ~NoChanges(options.resetState, migration.commandsUp)) =>
         /\ pc = "exited"
         /\ exitCode = 0
         /\ out = ActionLines(migration.consoleOut)
                   \o << <<"Migration result:", migration.commandsUp>>,
                         <<"Undo commands:", migration.commandsDown>> >>

\* A preview of changes, in a directory and a store that are not empty.
C4_Witness ==
  /\ options.preview
  /\ Generated
  /\ migration.commandsUp # <<>>
  /\ migration.commandsDown # <<>>
  /\ start.files # {}
  /\ start.store # {}
  /\ pc = "exited"

\* The bulkInsert of the run has been done.
Saved == pc = "inserted" \/ (pc = "exited" /\ rows # <<>>)

\* C5: after a run without --preview and without --reset-state that finds
\* changes and whose steps all succeed, the store holds exactly one record
\* keyed by the run's new revision; its name is the name of the migration
\* written by the run and its state is the full current snapshot, the target
\* of the diff.
C5_StateRecord ==
  (Saved /\ ~options.resetState) =>
    LET saved == {r \in store : r.revision = currentState.revision}
    IN  /\ currentState.revision = now
        /\ currentState.tables = reverseModels(models)
        /\ migration.actions =
             sortActions(parseDifference(previousState.tables, currentState.tables))
        /\ Cardinality(saved) = 1
        /\ \A r \in saved :
             /\ \E f \in files :
                  /\ f.name = FileName(r.revision, r.name[1])
                  /\ f.commandsUp = migration.commandsUp
                  /\ f.commandsDown = migration.commandsDown
             /\ r.name = <<Title(options)>>
             /\ JSONParse(r.state) = currentState

\* A run that found changes against a stored previous state, and saved.
C5_Witness ==
  /\ Saved
  /\ ~options.resetState
  /\ options.execute
  /\ previousState.tables # EmptyTables
  /\ currentState.tables # EmptyTables
  /\ \E r \in store : r.revision = currentState.revision

\* C6: if a run saved the state record of revision r and migration r is the
\* last executed migration, the next run with unchanged model definitions
\* loads exactly the saved snapshot as its previous state, computes an empty
\* forward diff, reports no changes and leaves files and records unchanged.
C6_Resume ==
  \A r \in start.store :
    (/\ Generated
     /\ ~options.resetState
     /\ lastExecutedMigration # Undefined
     /\ r.revision = revision
     /\ r.state = JSONStringify([tables |-> reverseModels(models),
                                 revision |-> revision]))
      => /\ previousState.tables = reverseModels(models)
         /\ previousState.revision = revision
         /\ migration.actions = <<>>
         /\ NoChangesReported
         /\ FilesAndRecordsUntouched

\* The run after a migration of two tables was saved and executed.
C6_Witness ==
  /\ Generated
  /\ ~options.resetState
  /\ lastExecutedMigration # Undefined
  /\ Cardinality(DOMAIN previousState.tables) = Cardinality(TableNames)
  /\ \E r \in start.store :
       /\ r.revision = revision
       /\ r.state = JSONStringify([tables |-> reverseModels(models),
                                   revision |-> revision])
  /\ NoChangesReported

(***************************************************************************)
(* The options --execute and --reset-state, the order of the side effects  *)
(* and what a failed step leaves behind                                    *)
(***************************************************************************)

Range(q) == {q[i] : i \in 1..Len(q)}

IsPrefix(p, q) == Len(p) <= Len(q) /\ \A i \in 1..Len(p) : p[i] = q[i]

\* A step of the run failed: a promise was rejected, the file write threw or
\* the models could not be loaded.
Failed == error \in {"rejected", "thrown"}

\* The revision prefix of the last executed migration, -1 when there is none.
LastExecutedRevision ==
  IF LastName(meta) = Undefined THEN -1 ELSE SplitFirst(LastName(meta))

\* C11 as stated: with --execute, when a run that found changes and none of
\* whose steps failed is over, the new migration file exists, its state record
\* is saved and the new migration is the last executed migration.
C11_AsStated ==
  (pc \in Stopped /\ ~Failed /\ options.execute /\ ~options.preview
     /\ ~options.resetState /\ Generated /\ Len(migration.commandsUp) > 0)
    => /\ \E f \in files : f.name = FileName(currentState.revision, Title(options))
       /\ \E r \in store : r.revision = currentState.revision
       /\ LastName(meta) = FileName(currentState.revision, Title(options))

\* C12: with --reset-state and an executed migration, when every step of the
\* run has succeeded the store holds exactly one record of a revision greater
\* than or equal to the last executed one: it is keyed by the last executed
\* revision, named after the last executed migration, and its state is the
\* snapshot of the model definitions.
C12_ResetRecord ==
  (Saved /\ options.resetState)
    => LET atOrAfter == {r \in store : r.revision >= LastExecutedRevision}
       IN  /\ LastName(meta) # Undefined
           /\ Cardinality(atOrAfter) = 1
           /\ \A r \in atOrAfter :
                /\ r.revision = LastExecutedRevision
                /\ r.name = LastName(meta)
                /\ JSONParse(r.state).tables = reverseModels(models)

\* A reset run is saved over a store that held the record of the last executed
\* revision and a later record, with models to take the snapshot of.
C12_Witness ==
  /\ Saved
  /\ options.resetState
  /\ models # {}
  /\ \E r \in start.store : r.revision > LastExecutedRevision
  /\ \E r \in start.store : r.revision = LastExecutedRevision /\ r \notin store

\* C13: the previous snapshot the migration is generated from is the state of
\* the record whose revision is the revision prefix of the last executed
\* migration, whatever later records the store holds; it is the empty schema
\* when no migration was executed, when the store has no record of that
\* revision, or with --reset-state.
C13_PreviousSnapshot ==
  Generated
    => LET found == {r \in start.store : r.revision = LastExecutedRevision}
           expected == IF ~options.resetState /\ LastName(meta) # Undefined
                          /\ found # {}
                       THEN JSONParse((CHOOSE r \in found : TRUE).state).tables
                       ELSE EmptyTables
       IN  /\ previousState.tables = expected
           /\ migration = Assemble(expected, reverseModels(models))

\* A migration is generated while the store holds the record of the last
\* executed revision and a later record with other tables.
C13_Witness ==
  /\ Generated
  /\ ~options.resetState
  /\ \E r \in start.store :
       /\ r.revision = LastExecutedRevision
       /\ previousState.tables = JSONParse(r.state).tables
       /\ previousState.tables # EmptyTables
  /\ \E r \in start.store :
       /\ r.revision > LastExecutedRevision
       /\ JSONParse(r.state).tables # previousState.tables

\* The side effects of a run that persists, in the order of the code.
PersistOrder(resetState) ==
  IF resetState THEN <<"prune", "delete", "insert">>
  ELSE <<"prune", "write", "delete", "insert">>

\* C14: the side effects of a run happen in the order prune, write, delete,
\* insert, each after the one before it is done: the directory is as the run
\* found it until the prune is done, the store is as the run found it until
\* the DELETE is done and has no new record until the insert is done, and the
\* record is saved only when the migration file is written.
C14_Order ==
  /\ IsPrefix(effects, PersistOrder(options.resetState))
  /\ "prune" \notin Range(effects) => files = start.files
  /\ "write" \notin Range(effects) => files \subseteq start.files
  /\ "delete" \notin Range(effects) => store = start.store
  /\ "insert" \notin Range(effects) => store \subseteq start.store
  /\ ("insert" \in Range(effects) /\ ~options.resetState)
       => \E f \in files : f.name = FileName(currentState.revision, Title(options))

\* A run has done the four side effects, each of which changed something.
C14_Witness ==
  /\ effects = <<"prune", "write", "delete", "insert">>
  /\ ~(files \subseteq start.files)
  /\ ~(start.files \subseteq files)
  /\ ~(store \subseteq start.store)
  /\ ~(start.store \subseteq store)

\* C15 as stated: when a run without --reset-state has saved its record, the
\* store holds exactly one record of a revision greater than the last executed
\* one, and every record the run found of a revision up to it.
C15_AsStated ==
  (Saved /\ ~options.resetState)
    => /\ Cardinality({r \in store : r.revision > LastExecutedRevision}) = 1
       /\ {r \in start.store : r.revision <= LastExecutedRevision} \subseteq store

\* C16 as stated: when a step of the run has failed, the migrations directory
\* and the state store are as they were before the run.
C16_AsStated ==
  (pc \in Stopped /\ Failed) => FilesAndRecordsUntouched

\* C16: when a step of the run has failed the run takes no further step and
\* inserts no record; the directory and the store are as they were before the
\* run when the step is ahead of the prune, and the store is when it is ahead
\* of the DELETE.
C16_Failure ==
  Failed
    => /\ pc \in {"caught", "unhandled", "uncaught"}
       /\ "insert" \notin Range(effects)
       /\ store \subseteq start.store
       /\ effects = <<>> => FilesAndRecordsUntouched
       /\ "delete" \notin Range(effects) => store = start.store

\* The bulkInsert is rejected after the file was written and records were
\* deleted.
C16_Witness ==
  /\ Failed
  /\ effects = <<"prune", "write", "delete">>
  /\ (\E f \in files : f.name = FileName(currentState.revision, Title(options)))
  /\ ~(\E r \in store : r.revision = currentState.revision)
  /\ store # start.store

\* C17 as stated: a run none of whose steps failed ends by calling
\* process.exit with status 0, whatever the options.
C17_AsStated ==
  (pc \in Stopped /\ ~Failed) => (pc = "exited" /\ exitCode = 0)

\* C18 as stated: with --reset-state the migrations directory is as the run
\* found it.
C18_AsStated ==
  options.resetState => files = start.files

\* C18: with --reset-state a run writes no migration file; the directory
\* changes only by the files the prune removes, and with --keep-files there
\* are none.
C18_Reset ==
  options.resetState
    => /\ "write" \notin Range(effects)
       /\ files \subseteq start.files
       /\ files # start.files => ("prune" \in Range(effects) /\ ~options.keepFiles)

\* A reset run is saved after its prune removed a file.
C18_Witness ==
  /\ options.resetState
  /\ Saved
  /\ files # start.files

\* C19 as stated: with --reset-state and no executed migration, a run whose
\* steps succeed is over after the first query with process.exit(0), without
\* the model definitions having been read, a migration generated, a file
\* pruned or written, or a record deleted or inserted.
C19_AsStated ==
  (options.resetState /\ meta = {} /\ ~Failed
     /\ pc \notin {"createMeta", "createState", "queryLast"})
    => /\ pc = "exited"
       /\ exitCode = 0
       /\ ~loaded
       /\ ~Generated
       /\ migration = NoMigration
       /\ effects = <<>>
       /\ FilesAndRecordsUntouched

\* C19: with --reset-state and no executed migration, a run whose steps succeed
\* is over after the first query with process.exit(0): unless --help was
\* given the model definitions were loaded when the process started, but no
\* snapshot of them is taken, no migration generated, nothing but the usage of
\* --help printed, no file pruned or written, no record deleted or inserted.
C19_ResetWithoutExecuted ==
  (options.resetState /\ meta = {} /\ ~Failed
     /\ pc \notin {"createMeta", "createState", "queryLast"})
    => /\ pc = "exited"
       /\ exitCode = 0
       /\ loaded = ~options.help
       /\ ~Generated
       /\ currentState = InitialCurrentState
       /\ migration = NoMigration
       /\ effects = <<>>
       /\ out = IF options.help THEN Usage ELSE <<>>
       /\ FilesAndRecordsUntouched

\* Such a run is over with models to read, files to prune and records to
\* delete.
C19_Witness ==
  /\ options.resetState
  /\ ~options.help
  /\ loaded
  /\ meta = {}
  /\ pc = "exited"
  /\ models # {}
  /\ files # {}
  /\ store # {}

====
